---- MODULE Spec2Model ----
(***************************************************************************)
(* Model of the real-estate data collector: the acquisition client         *)
(* (utils/perplexity_api.py), the tabular store (utils/data_writer.py) and *)
(* the batch orchestrator (app.py).                                        *)
(***************************************************************************)
EXTENDS Integers, Sequences, FiniteSets, TLC

VARIABLES
    names,          \* process_project_list: project_names, the input entries
    i,              \* process_project_list: entries of project_names consumed so far
    pc,             \* position of the orchestrator / of process_single_project
    project_name,   \* the name handed to process_single_project / fetch
    fstate,         \* fetch: "idle", "running", "normalized", "fallback", "raised"
    attempt,        \* fetch: loop variable of `for attempt in range(max_retries)`
    retry_delay,    \* fetch: current delay
    requests,       \* fetch: requests.post calls made by the current fetch
    slept,          \* fetch: the delays slept by the current fetch, in order
    reply,          \* fetch: the service's answer to the latest request
    response,       \* the dict returned by fetch
    exc,            \* process_single_project: str(e) of the exception being handled
    table,          \* the results CSV file
    table0,         \* the results CSV file as it was before the run
    errlog,         \* the error log CSV file
    results,        \* process_project_list: counters and details
    wrote,          \* rows appended to the table for the current name
    logged,         \* entries appended to the error log for the current name
    storeFailures,  \* store operations that raised so far
    op,             \* store harness: the latest store operation
    before,         \* store harness: the table before the latest store operation
    nops,           \* store harness: store operations made so far
    prevop,         \* store harness: the store operation before the latest one
    added,          \* store harness: the lines handed to the writer by write_to_csv so far
    query,          \* fetch: the name put in the prompt of the latest request
    content,        \* answer text: the content being parsed
    pstage,         \* answer text: "idle", "raw", "stripped", "parsed", "repaired"
    pdata,          \* answer text: what json.loads made of the content
    raw             \* answer text: the content as the service sent it

vars == << names, i, pc, project_name, fstate, attempt, retry_delay, requests, slept,
           reply, response, exc, table, table0, errlog, results, wrote,
           logged, storeFailures, op, before, nops, prevop, added, query,
           content, pstage, pdata, raw >>

-----------------------------------------------------------------------------
(* Bounds of the model *)

MaxNames == 2
MaxStoreFailures == 2
MaxOps == 2
MaxPriorRows == 1

-----------------------------------------------------------------------------
(* Python values: str, list of str, dict of str -> str *)

S(s) == [t |-> "str", v |-> s]
L(q) == [t |-> "list", v |-> q]
D(q) == [t |-> "dict", v |-> q]

SENTINEL == "Information not available"

EmptyDict == [k \in {} |-> S("")]

Range(q) == { q[j] : j \in 1..Len(q) }

\* ", ".join(q)
RECURSIVE Join(_)
Join(q) ==
    IF q = << >> THEN ""
    ELSE IF Len(q) = 1 THEN q[1]
    ELSE q[1] \o ", " \o Join(Tail(q))

\* dict.setdefault(k, v)
SetDefault(d, k, v) ==
    IF k \in DOMAIN d THEN d ELSE [x \in DOMAIN d \cup {k} |-> IF x = k THEN v ELSE d[x]]

\* d[k] = v
SetItem(d, k, v) == [x \in DOMAIN d \cup {k} |-> IF x = k THEN v ELSE d[x]]

\* d.get(k, default)
Get(d, k, default) == IF k \in DOMAIN d THEN d[k] ELSE default

\* str(value)
Str(value) ==
    IF value.t = "str" THEN value.v
    ELSE IF value.t = "list" THEN
        "[" \o Join([j \in 1..Len(value.v) |-> "'" \o value.v[j] \o "'"]) \o "]"
    ELSE
        "{" \o Join([j \in 1..Len(value.v) |->
                        "'" \o value.v[j][1] \o "': '" \o value.v[j][2] \o "'"]) \o "}"

\* str.strip(), for the blank
RECURSIVE lstrip(_)
lstrip(s) == IF Len(s) > 0 /\ Head(s) = " " THEN lstrip(Tail(s)) ELSE s

RECURSIVE rstrip(_)
rstrip(s) ==
    IF Len(s) > 0 /\ SubSeq(s, Len(s), Len(s)) = " " THEN rstrip(SubSeq(s, 1, Len(s) - 1))
    ELSE s

strip(s) == rstrip(lstrip(s))

-----------------------------------------------------------------------------
(* Schema registry *)

\* utils/data_writer.py
get_required_fields ==
    << "Project Name",
       "Project Price per SFT",
       "total Price",
       "Possession (Year & Month)",
       "Location",
       "Builder Reputation & Legal Compliance",
       "Property Type & Space Utilization",
       "Open Space",
       "Safety & Security",
       "Quality of Construction",
       "Home Loan & Financing Options",
       "Orientation",
       "Configuration (2BHK, 3BHK, etc.)",
       "Source URLs",
       "Why" >>

\* utils/perplexity_api.py
api_get_required_fields ==
    << "Project Name",
       "Project Price per SFT",
       "total Price",
       "Possession (Year & Month)",
       "Location",
       "Builder Reputation & Legal Compliance",
       "Property Type & Space Utilization",
       "Open Space",
       "Safety & Security",
       "Quality of Construction",
       "Home Loan & Financing Options",
       "Orientation",
       "Configuration (2BHK, 3BHK, etc.)",
       "Source URLs",
       "Why" >>

\* for key in fields: d.setdefault(key, "Information not available")
RECURSIVE FillDefaults(_, _)
FillDefaults(d, fields) ==
    IF fields = << >> THEN d
    ELSE FillDefaults(SetDefault(d, Head(fields), S(SENTINEL)), Tail(fields))

-----------------------------------------------------------------------------
(* Acquisition client: get_info_from_perplexity *)

max_retries == 3
initial_retry_delay == 5

\* The ASCII characters \w matches
WordChars ==
    {"A", "B", "C", "D", "E", "F", "G", "H", "I", "J", "K", "L", "M", "N", "O", "P",
      "Q", "R", "S", "T", "U", "V", "W", "X", "Y", "Z", "a", "b", "c", "d", "e", "f",
      "g", "h", "i", "j", "k", "l", "m", "n", "o", "p", "q", "r", "s", "t", "u", "v",
      "w", "x", "y", "z", "0", "1", "2", "3", "4", "5", "6", "7", "8", "9", "_" }

\* re.sub(r'[^\w\s]', ' ', name)
RECURSIVE PunctuationToSpace(_)
PunctuationToSpace(s) ==
    IF s = "" THEN ""
    ELSE (IF Head(s) \in WordChars \cup { " " } THEN Head(s) ELSE " ")
            \o PunctuationToSpace(Tail(s))

\* re.sub(r'\s+', ' ', cleaned): a run of blanks becomes one blank
RECURSIVE CollapseBlanks(_, _)
CollapseBlanks(s, afterBlank) ==
    IF s = "" THEN ""
    ELSE IF Head(s) = " " THEN
        (IF afterBlank THEN "" ELSE " ") \o CollapseBlanks(Tail(s), TRUE)
    ELSE Head(s) \o CollapseBlanks(Tail(s), FALSE)

\* lines 12-14
clean_project_name(name) == strip(CollapseBlanks(PunctuationToSpace(name), FALSE))

\* No answer text parsed
NoData == [ok |-> FALSE, obj |-> EmptyDict]

\* What the remote service can answer to one request.
\*   net:     "timeout" when requests.post raises, else "ok"
\*   status:  "500" when raise_for_status raises, else "200"
\*   answer:  "missing" when the body has no choices[0].message.content
\*   parsed:  what json.loads (strict, then after fix_json_string) makes of the
\*            content: "unparseable", "array" (not an object) or "object"
\*   payload: the parsed object
Payloads ==
    { \* every field answered
      [k \in Range(api_get_required_fields) |->
          IF k = "Project Name" THEN S("X")
          ELSE IF k = "Source URLs" THEN L(<< "u1", "u2" >>)
          ELSE IF k = "Home Loan & Financing Options" THEN D(<< << "SBI", "yes" >> >>)
          ELSE S("v")],
      \* fields omitted, no error key
      ("Project Name" :> S("X")) @@ ("Location" :> S("Hyderabad")),
      \* the service flags an error of its own
      ("error" :> S("quota exceeded")) @@ ("Location" :> S("Hyderabad")),
      \* a key outside the schema
      ("Amenities" :> S("pool")) @@ ("Why" :> S("v")) }

Failures ==
    { [net |-> "timeout", status |-> "-", answer |-> "-", parsed |-> "-", payload |-> EmptyDict],
      [net |-> "ok", status |-> "500", answer |-> "-", parsed |-> "-", payload |-> EmptyDict],
      [net |-> "ok", status |-> "200", answer |-> "missing", parsed |-> "-", payload |-> EmptyDict],
      [net |-> "ok", status |-> "200", answer |-> "text", parsed |-> "unparseable",
       payload |-> EmptyDict],
      [net |-> "ok", status |-> "200", answer |-> "text", parsed |-> "array",
       payload |-> EmptyDict] }

WellFormed ==
    { [net |-> "ok", status |-> "200", answer |-> "text", parsed |-> "object", payload |-> p] :
        p \in Payloads }

Responses == Failures \cup WellFormed

NoReply == [net |-> "-", status |-> "-", answer |-> "-", parsed |-> "-", payload |-> EmptyDict]

\* A try block that also rejects an object carrying an error key
TryBlockRejectsErrorKey(r) ==
    IF r.parsed # "object" THEN [cls |-> "ConnectionError", msg |-> "Read timed out"]
    ELSE IF "error" \in DOMAIN r.payload THEN [cls |-> "KeyError", msg |-> "'error'"]
    ELSE [cls |-> "none", msg |-> ""]

\* The exception the try block (lines 126-140) raises on response r, as
\* [cls, msg], or cls = "none" when it runs to `return data`.
TryBlock(r) ==
    IF r.net # "ok" THEN [cls |-> "ConnectionError", msg |-> "Read timed out"]
    ELSE IF r.status # "200" THEN [cls |-> "HTTPError", msg |-> "500 Server Error"]
    ELSE IF r.answer = "missing" THEN [cls |-> "KeyError", msg |-> "'choices'"]
    ELSE IF r.parsed = "unparseable" THEN [cls |-> "JSONDecodeError", msg |-> "Expecting value"]
    ELSE IF r.parsed # "object" THEN [cls |-> "TypeError", msg |-> "list indices must be integers"]
    ELSE [cls |-> "none", msg |-> ""]

\* A handler that catches the transport errors only
CaughtByExceptRequestException(cls) == cls \in { "ConnectionError", "HTTPError" }

\* `except Exception`: the classes the handler of line 142 catches
CaughtByExceptException(cls) ==
    cls \in { "ConnectionError", "HTTPError", "KeyError", "JSONDecodeError", "TypeError" }

\* Normalization that forgets to complete the record
NormalizeNoFill(data, original_name) == SetItem(data, "Project Name", S(original_name))

\* Normalization that labels the record with the name sent in the query
NormalizeCleanedName(data, original_name) ==
    FillDefaults(SetItem(data, "Project Name", S(clean_project_name(original_name))),
                 api_get_required_fields)

\* Normalization that keeps the schema fields only
NormalizeSchemaOnly(data, original_name) ==
    [k \in Range(api_get_required_fields) |->
        IF k = "Project Name" THEN S(original_name) ELSE Get(data, k, S(SENTINEL))]

\* lines 137-140
Normalize(data, original_name) ==
    FillDefaults(SetItem(data, "Project Name", S(original_name)), api_get_required_fields)

\* Fallback construction that leaves Source URLs to the sentinel loop
FallbackNoUrls(original_name, msg) ==
    [k \in Range(api_get_required_fields) \cup {"error"} |->
        IF k = "Project Name" THEN S(original_name)
        ELSE IF k = "error" THEN S(msg)
        ELSE S(SENTINEL)]

\* lines 146-150
Fallback(original_name, msg) ==
    FillDefaults(("Project Name" :> S(original_name)) @@ ("error" :> S(msg))
                    @@ ("Source URLs" :> L(<< >>)),
                 api_get_required_fields)

\* A delay that stays the same
BackoffConstant(d) == d

\* line 144: retry_delay *= 2
Backoff(d) == d * 2

\* One iteration of the retry loop (lines 124-150): the request, the try block
\* and its handler.  A loop that ran out of iterations returns None.
FetchAttempt(r) ==
    /\ pc = "fetch"
    /\ fstate = "running"
    /\ IF attempt >= max_retries THEN
            /\ fstate' = "none"
            /\ UNCHANGED << attempt, retry_delay, requests, slept, reply, response, query >>
       ELSE
            /\ requests' = requests + 1
            /\ query' = clean_project_name(project_name)
            /\ reply' = r
            /\ LET e == TryBlock(r) IN
                IF e.cls = "none" THEN
                    /\ response' = Normalize(r.payload, project_name)
                    /\ fstate' = "normalized"
                    /\ UNCHANGED << attempt, retry_delay, slept >>
                ELSE IF ~CaughtByExceptException(e.cls) THEN
                    /\ fstate' = "raised"
                    /\ UNCHANGED << attempt, retry_delay, slept, response >>
                ELSE IF attempt < max_retries - 1 THEN
                    /\ slept' = Append(slept, retry_delay)
                    /\ retry_delay' = Backoff(retry_delay)
                    /\ attempt' = attempt + 1
                    /\ UNCHANGED << fstate, response >>
                ELSE
                    /\ response' = Fallback(project_name, e.msg)
                    /\ fstate' = "fallback"
                    /\ UNCHANGED << attempt, retry_delay, slept >>
    /\ UNCHANGED << names, i, pc, project_name, exc, table, table0, errlog, results,
                    wrote, logged, storeFailures, op, before, nops, prevop, added,
                    content, pstage, pdata, raw >>

Attempt == \E r \in Responses : FetchAttempt(r)

-----------------------------------------------------------------------------
(* Tabular store: utils/data_writer.py *)

\* A CSV file: whether it exists, its header line and its data lines, each a
\* sequence of cells.
NoTable == [exists |-> FALSE, header |-> << >>, rows |-> << >>]

\* process_project_list, line 72
NoResults == [success |-> 0, partial |-> 0, failed |-> 0, details |-> << >>]

\* _flatten, one value: dicts and lists joined with ", ", the rest str(value)
FlattenValue(value) ==
    IF value.t = "dict" THEN
        Join([j \in 1..Len(value.v) |-> value.v[j][1] \o ": " \o value.v[j][2]])
    ELSE IF value.t = "list" THEN Join(value.v)
    ELSE Str(value)

\* _flatten: a dict of the required fields only
_flatten(row) ==
    [key \in Range(get_required_fields) |-> FlattenValue(Get(row, key, S(SENTINEL)))]

\* The cell texts pandas.read_csv takes for a missing value (its default
\* na_values); DataFrame.to_csv writes a missing value as the empty text.
NaValues == { "", "NA", "N/A", "NaN", "nan", "null", "NULL", "None", "n/a", "#N/A" }

\* pd.read_csv(path): the columns and the rows, every row as wide as the header,
\* a cell being [na, v].  The cell texts of the model are not numeric, so the
\* type inference of read_csv leaves them as they are.
pd_read_csv(t) ==
    [columns |-> t.header,
     data |-> [r \in 1..Len(t.rows) |->
                [c \in 1..Len(t.header) |->
                    IF c > Len(t.rows[r]) \/ t.rows[r][c] \in NaValues
                    THEN [na |-> TRUE, v |-> ""]
                    ELSE [na |-> FALSE, v |-> t.rows[r][c]]]]]

\* df[col] = "Information not available" for every col of missing, in order
AddColumns(df, missing) ==
    [columns |-> df.columns \o missing,
     data |-> [r \in 1..Len(df.data) |->
                df.data[r] \o [c \in 1..Len(missing) |-> [na |-> FALSE, v |-> SENTINEL]]]]

\* df.to_csv(path, index=False)
to_csv(df) ==
    [exists |-> TRUE,
     header |-> df.columns,
     rows |-> [r \in 1..Len(df.data) |->
                [c \in 1..Len(df.columns) |->
                    IF df.data[r][c].na THEN "" ELSE df.data[r][c].v]]]

\* A test for missing columns that does not look at the header
MissingAll(columns) == get_required_fields

\* [c for c in required if c not in df.columns]
Missing(columns) == SelectSeq(get_required_fields, LAMBDA c : c \notin Range(columns))

\* A repair that rewrites the table with the schema columns only
ensure_csv_structure_schema_only(t) ==
    IF ~t.exists THEN [exists |-> TRUE, header |-> get_required_fields, rows |-> << >>]
    ELSE IF Missing(t.header) = << >> THEN t
    ELSE [exists |-> TRUE,
          header |-> get_required_fields,
          rows |-> [r \in 1..Len(t.rows) |->
                     [c \in 1..Len(get_required_fields) |->
                        LET at == { k \in 1..Len(t.header) : t.header[k] = get_required_fields[c] }
                        IN  IF at = {} THEN SENTINEL ELSE t.rows[r][CHOOSE k \in at : TRUE]]]]

\* ensure_csv_structure(path): the file afterwards
ensure_csv_structure(t) ==
    IF ~t.exists THEN [exists |-> TRUE, header |-> get_required_fields, rows |-> << >>]
    ELSE LET df == pd_read_csv(t)
             missing == Missing(df.columns)
         IN  IF missing # << >> THEN to_csv(AddColumns(df, missing)) ELSE t

\* csv.DictWriter(fh, fieldnames=get_required_fields()).writerow(flat): the cells
\* of the line written, in fieldnames order
DictWriterRow(flat) == [c \in 1..Len(get_required_fields) |-> flat[get_required_fields[c]]]

\* A writer that skips a name the table already holds
write_to_csv_dedup(row, t) ==
    LET t1 == ensure_csv_structure(t)
        line == DictWriterRow(_flatten(row))
    IN  IF \E r \in 1..Len(t1.rows) : t1.rows[r][1] = line[1] THEN t1
        ELSE [t1 EXCEPT !.rows = Append(t1.rows, line)]

\* A writer that opens the file at its last line and writes over it
write_to_csv_overwrite(row, t) ==
    LET t1 == ensure_csv_structure(t)
        line == DictWriterRow(_flatten(row))
    IN  IF t1.rows = << >> THEN [t1 EXCEPT !.rows = << line >>]
        ELSE [t1 EXCEPT !.rows[Len(t1.rows)] = line]

\* A writer that loads the table, adds the line and saves the table again
write_to_csv_rewrite(row, t) ==
    LET t1 == to_csv(pd_read_csv(ensure_csv_structure(t)))
    IN  [t1 EXCEPT !.rows = Append(t1.rows, DictWriterRow(_flatten(row)))]

\* write_to_csv(row, path): the file afterwards
write_to_csv(row, t) ==
    LET t1 == ensure_csv_structure(t)
    IN  [t1 EXCEPT !.rows = Append(t1.rows, DictWriterRow(_flatten(row)))]

Timestamps == { "2025-01-01 00:00:00" }

\* write_error_log(project_name, message, path): the file afterwards
write_error_log(name, message, ts, t) ==
    [exists |-> TRUE,
     header |-> IF t.exists THEN t.header
                ELSE << "Project Name", "Error Message", "Timestamp" >>,
     rows |-> Append(t.rows, << name, message, ts >>)]

\* Reading a data line under the header: the cell of column c, or "" when the
\* line is too short or the header has no such column
CellUnder(header, line, c) ==
    LET at == { k \in 1..Len(header) : header[k] = c }
    IN  IF at = {} THEN ""
        ELSE LET k == CHOOSE k \in at : \A m \in at : k <= m
             IN  IF k <= Len(line) THEN line[k] ELSE ""

-----------------------------------------------------------------------------
(* A single fetch call, for any project name *)

FetchNames == { "Lake Vista", " Green  Meadows ", "A-1 (Phase 2)", "" }


InitFetch ==
    /\ names = << >>
    /\ i = 0
    /\ pc = "fetch"
    /\ project_name \in FetchNames
    /\ fstate = "running"
    /\ attempt = 0
    /\ retry_delay = initial_retry_delay
    /\ requests = 0
    /\ slept = << >>
    /\ reply = NoReply
    /\ response = EmptyDict
    /\ exc = ""
    /\ table = NoTable
    /\ table0 = NoTable
    /\ errlog = NoTable
    /\ results = NoResults
    /\ wrote = 0
    /\ logged = 0
    /\ storeFailures = 0
    /\ op = "none"
    /\ before = NoTable
    /\ nops = 0
    /\ prevop = "none"
    /\ added = << >>
    /\ query = ""
    /\ content = ""
    /\ pstage = "idle"
    /\ pdata = NoData
    /\ raw = ""

NextFetch == Attempt

SpecFetch == InitFetch /\ [][NextFetch]_vars

-----------------------------------------------------------------------------
(* Batch orchestrator: app.py *)

\* An error test that takes a sentinel-filled field for an error
has_error_or_sentinel(resp) ==
    "error" \in DOMAIN resp \/ \E k \in DOMAIN resp : resp[k] = S(SENTINEL)

\* line 19, for a dict
has_error(resp) == "error" \in DOMAIN resp

\* A message that ignores the Record
error_msg_unknown(resp) == S("Unknown error")

\* line 26
error_msg(resp) == Get(resp, "error", S("Unknown error"))

\* Minimal data that lose the name
fallback_data_unnamed(name, msg) ==
    FillDefaults(("error" :> S(msg)), get_required_fields)

\* lines 56-63 (and 37-44): the minimal data saved by the handler
fallback_data(name, msg) ==
    FillDefaults(("Project Name" :> S(name)) @@ ("error" :> S(msg)), get_required_fields)

\* A tally that expects the status "failed" where the code returns "error"
TallyErrorUncounted(res, name, status, message) ==
    [success |-> res.success + (IF status = "success" THEN 1 ELSE 0),
     partial |-> res.partial + (IF status = "partial" THEN 1 ELSE 0),
     failed  |-> res.failed + (IF status = "failed" THEN 1 ELSE 0),
     details |-> Append(res.details,
                    [name |-> name, status |-> status, message |-> message])]

\* lines 97-108: the counters and the detail entry of one processed name
Tally(res, name, status, message) ==
    [success |-> res.success + (IF status = "success" THEN 1 ELSE 0),
     partial |-> res.partial + (IF status = "partial" THEN 1 ELSE 0),
     failed  |-> res.failed + (IF status \notin { "success", "partial" } THEN 1 ELSE 0),
     details |-> Append(res.details,
                    [name |-> name, status |-> status, message |-> message])]

\* A store operation may raise OSError while fewer than MaxStoreFailures did.
StoreMayFail == storeFailures < MaxStoreFailures
OSErrorMsg == "[Errno 13] Permission denied"

\* process_single_project returns to the loop of process_project_list
Return(status, message) ==
    /\ results' = Tally(results, project_name, status, message)
    /\ i' = i + 1
    /\ pc' = "loop"

FetchFrame ==
    UNCHANGED << fstate, attempt, retry_delay, requests, slept, reply, response, query >>
HarnessFrame ==
    UNCHANGED << names, table0, op, before, nops, prevop, added, content, pstage, pdata,
                 raw >>

\* line 79
StartList ==
    /\ pc = "start"
    /\ \/ /\ table' = ensure_csv_structure(table)
          /\ pc' = "loop"
          /\ UNCHANGED storeFailures
       \/ /\ StoreMayFail
          /\ storeFailures' = storeFailures + 1
          /\ pc' = "raised"
          /\ UNCHANGED table
    /\ UNCHANGED << i, project_name, exc, errlog, results, wrote, logged >>
    /\ FetchFrame /\ HarnessFrame

\* lines 84-87: an entry that is empty after strip() is skipped
SkipEmpty ==
    /\ pc = "loop"
    /\ i < Len(names)
    /\ strip(names[i + 1]) = ""
    /\ i' = i + 1
    /\ UNCHANGED << pc, project_name, exc, table, errlog, results, wrote, logged,
                    storeFailures >>
    /\ FetchFrame /\ HarnessFrame

\* lines 84-93 and 12-16: the next name enters process_single_project and fetch
BeginProject ==
    /\ pc = "loop"
    /\ i < Len(names)
    /\ strip(names[i + 1]) # ""
    /\ project_name' = strip(names[i + 1])
    /\ pc' = "fetch"
    /\ fstate' = "running"
    /\ attempt' = 0
    /\ retry_delay' = initial_retry_delay
    /\ requests' = 0
    /\ slept' = << >>
    /\ reply' = NoReply
    /\ query' = ""
    /\ response' = EmptyDict
    /\ exc' = ""
    /\ wrote' = 0
    /\ logged' = 0
    /\ UNCHANGED << i, table, errlog, results, storeFailures >>
    /\ HarnessFrame

\* lines 116-120
Finish ==
    /\ pc = "loop"
    /\ i = Len(names)
    /\ pc' = "done"
    /\ UNCHANGED << i, project_name, exc, table, errlog, results, wrote, logged,
                    storeFailures >>
    /\ FetchFrame /\ HarnessFrame

\* lines 16-30 up to the first store write: fetch has ended; its Record is
\* appended to the table.  An exception out of fetch, or out of the write,
\* goes to the handler of line 50; a response that is no dict takes the branch
\* of lines 32-49, which makes the handler's two writes.
ProcessResponse ==
    /\ pc = "fetch"
    /\ fstate \in { "normalized", "fallback", "raised", "none" }
    /\ attempt' = 0
    /\ retry_delay' = initial_retry_delay
    /\ requests' = 0
    /\ slept' = << >>
    /\ reply' = NoReply
    /\ query' = ""
    /\ UNCHANGED << fstate, response >>
    /\ IF fstate = "raised" THEN
            /\ exc' = TryBlock(reply).msg
            /\ pc' = "handler_log"
            /\ UNCHANGED << i, table, results, wrote, storeFailures >>
       ELSE IF fstate = "none" THEN
            /\ exc' = "None"
            /\ pc' = "handler_log"
            /\ UNCHANGED << i, table, results, wrote, storeFailures >>
       ELSE
            \/ /\ table' = write_to_csv(response, table)
               /\ wrote' = wrote + 1
               /\ UNCHANGED << exc, storeFailures >>
               /\ IF has_error(response)
                  THEN pc' = "log" /\ UNCHANGED << i, results >>
                  ELSE Return("success", S("Success"))
            \/ /\ StoreMayFail
               /\ storeFailures' = storeFailures + 1
               /\ \/ table' = table
                  \/ table' = ensure_csv_structure(table)
               /\ exc' = OSErrorMsg
               /\ pc' = "handler_log"
               /\ UNCHANGED << i, results, wrote >>
    /\ UNCHANGED << project_name, errlog, logged >>
    /\ HarnessFrame

\* lines 25-28
LogError ==
    /\ pc = "log"
    /\ \/ /\ \E ts \in Timestamps :
                errlog' = write_error_log(project_name, Str(error_msg(response)), ts, errlog)
          /\ logged' = logged + 1
          /\ Return("partial", error_msg(response))
          /\ UNCHANGED << exc, storeFailures >>
       \/ /\ StoreMayFail
          /\ storeFailures' = storeFailures + 1
          /\ exc' = OSErrorMsg
          /\ pc' = "handler_log"
          /\ UNCHANGED << i, errlog, results, logged >>
    /\ UNCHANGED << project_name, table, wrote >>
    /\ FetchFrame /\ HarnessFrame

\* lines 50-53: the handler logs the exception; a failure here leaves
\* process_single_project and process_project_list
HandlerLog ==
    /\ pc = "handler_log"
    /\ \/ /\ \E ts \in Timestamps :
                errlog' = write_error_log(project_name, exc, ts, errlog)
          /\ logged' = logged + 1
          /\ pc' = "handler_write"
          /\ UNCHANGED storeFailures
       \/ /\ StoreMayFail
          /\ storeFailures' = storeFailures + 1
          /\ pc' = "raised"
          /\ UNCHANGED << errlog, logged >>
    /\ UNCHANGED << i, project_name, exc, table, results, wrote >>
    /\ FetchFrame /\ HarnessFrame

\* lines 55-68: the handler saves the minimal data and returns status "error"
HandlerWrite ==
    /\ pc = "handler_write"
    /\ \/ /\ table' = write_to_csv(fallback_data(project_name, exc), table)
          /\ wrote' = wrote + 1
          /\ Return("error", S(exc))
          /\ UNCHANGED storeFailures
       \/ /\ StoreMayFail
          /\ storeFailures' = storeFailures + 1
          /\ \/ table' = table
             \/ table' = ensure_csv_structure(table)
          /\ pc' = "raised"
          /\ UNCHANGED << i, results, wrote >>
    /\ UNCHANGED << project_name, exc, errlog, logged >>
    /\ FetchFrame /\ HarnessFrame

RawNames == { " ", " A ", "B" }

RECURSIVE NameLists(_)
NameLists(n) ==
    IF n = 0 THEN { << >> }
    ELSE LET shorter == NameLists(n - 1)
         IN  shorter \cup { Append(q, x) : q \in { y \in shorter : Len(y) = n - 1 },
                                            x \in RawNames }

BatchTables ==
    { NoTable,
      [exists |-> TRUE, header |-> get_required_fields,
       rows |-> << [c \in 1..Len(get_required_fields) |-> "old" ] >>],
      [exists |-> TRUE, header |-> SubSeq(get_required_fields, 1, 10),
       rows |-> << [c \in 1..10 |-> "old" ] >>] }

Init ==
    /\ names \in NameLists(MaxNames)
    /\ i = 0
    /\ pc = "start"
    /\ project_name = ""
    /\ fstate = "idle"
    /\ attempt = 0
    /\ retry_delay = initial_retry_delay
    /\ requests = 0
    /\ slept = << >>
    /\ reply = NoReply
    /\ response = EmptyDict
    /\ exc = ""
    /\ table \in BatchTables
    /\ table0 = table
    /\ errlog = NoTable
    /\ results = NoResults
    /\ wrote = 0
    /\ logged = 0
    /\ storeFailures = 0
    /\ op = "none"
    /\ before = NoTable
    /\ nops = 0
    /\ prevop = "none"
    /\ added = << >>
    /\ query = ""
    /\ content = ""
    /\ pstage = "idle"
    /\ pdata = NoData
    /\ raw = ""

Next ==
    \/ StartList
    \/ SkipEmpty
    \/ BeginProject
    \/ Attempt
    \/ ProcessResponse
    \/ LogError
    \/ HandlerLog
    \/ HandlerWrite
    \/ Finish

Spec == Init /\ [][Next]_vars

-----------------------------------------------------------------------------
(* The store on its own: ensure_csv_structure and write_to_csv called on any
   table an earlier run or an earlier schema may have left *)

Swapped(h) == << h[2], h[1] >> \o SubSeq(h, 3, Len(h))

StoreHeaders ==
    { get_required_fields,
      SubSeq(get_required_fields, 1, 10),
      SubSeq(get_required_fields, 6, 15),
      Swapped(get_required_fields),
      get_required_fields \o << "Notes" >>,
      SubSeq(get_required_fields, 1, 10) \o << "Notes" >> }

\* A data line under header h: every cell named after its column, or every
\* cell the text NA
PriorRow(h, kind) ==
    [c \in 1..Len(h) |-> IF kind = "NA" THEN "NA" ELSE "old " \o h[c]]

RECURSIVE RowKindSeqs(_)
RowKindSeqs(n) ==
    IF n = 0 THEN { << >> }
    ELSE LET shorter == RowKindSeqs(n - 1)
         IN  shorter \cup { Append(q, k) : q \in { x \in shorter : Len(x) = n - 1 },
                                            k \in { "text", "NA" } }

StoreTables ==
    { NoTable } \cup
    { [exists |-> TRUE, header |-> h, rows |-> [r \in 1..Len(q) |-> PriorRow(h, q[r])]] :
        h \in StoreHeaders, q \in RowKindSeqs(MaxPriorRows) }

StoreRecords ==
    { Normalize(p, "Lake Vista") : p \in Payloads }
    \cup { Fallback("Lake Vista", "Read timed out"),
           ("Project Name" :> S("Lake Vista")) @@ ("Location" :> S("Hyderabad")) }

InitStore ==
    /\ names = << >>
    /\ i = 0
    /\ pc = "store"
    /\ project_name = ""
    /\ fstate = "idle"
    /\ attempt = 0
    /\ retry_delay = initial_retry_delay
    /\ requests = 0
    /\ slept = << >>
    /\ reply = NoReply
    /\ response = EmptyDict
    /\ exc = ""
    /\ table \in StoreTables
    /\ table0 = table
    /\ errlog = NoTable
    /\ results = NoResults
    /\ wrote = 0
    /\ logged = 0
    /\ storeFailures = 0
    /\ op = "none"
    /\ before = table
    /\ nops = 0
    /\ prevop = "none"
    /\ added = << >>
    /\ query = ""
    /\ content = ""
    /\ pstage = "idle"
    /\ pdata = NoData
    /\ raw = ""

StoreFrame ==
    UNCHANGED << names, i, pc, project_name, fstate, attempt, retry_delay, requests,
                 slept, reply, exc, table0, errlog, results, wrote, logged,
                 storeFailures, query, content, pstage, pdata, raw >>

StoreEnsure ==
    /\ pc = "store"
    /\ nops < MaxOps
    /\ table' = ensure_csv_structure(table)
    /\ before' = table
    /\ op' = "ensure"
    /\ prevop' = op
    /\ nops' = nops + 1
    /\ UNCHANGED << response, added >>
    /\ StoreFrame

StoreAppend ==
    /\ pc = "store"
    /\ nops < MaxOps
    /\ \E row \in StoreRecords :
        /\ table' = write_to_csv(row, table)
        /\ response' = row
        /\ added' = Append(added, DictWriterRow(_flatten(row)))
    /\ before' = table
    /\ op' = "append"
    /\ prevop' = op
    /\ nops' = nops + 1
    /\ StoreFrame

NextStore == StoreEnsure \/ StoreAppend

SpecStore == InitStore /\ [][NextStore]_vars

-----------------------------------------------------------------------------
(* The answer text of one attempt: fence removal, json.loads and the repair
   pass of fix_json_string (perplexity_api.py, lines 16-20 and 128-135) *)

\* The character at position k of s, "" outside s
Ch(s, k) == IF k \in 1..Len(s) THEN SubSeq(s, k, k) ELSE ""

\* What \s and str.strip() take for white space
Whitespace == { " ", "\n", "\t", "\r" }

\* str.strip(chars)
RECURSIVE strip_chars(_, _)
strip_chars(s, chars) ==
    IF Len(s) > 0 /\ Ch(s, 1) \in chars THEN strip_chars(SubSeq(s, 2, Len(s)), chars)
    ELSE IF Len(s) > 0 /\ Ch(s, Len(s)) \in chars
        THEN strip_chars(SubSeq(s, 1, Len(s) - 1), chars)
    ELSE s

\* The backquote character, written ~ in the texts of the model
Backquote == "~"
Fence == Backquote \o Backquote \o Backquote

\* lines 129-130: when content starts with a fence, backquotes are stripped
\* from both ends, then white space
StripFence(s) ==
    IF Len(s) >= 3 /\ SubSeq(s, 1, 3) = Fence
    THEN strip_chars(strip_chars(s, { Backquote }), Whitespace)
    ELSE s

\* The first position from p on that holds no character of chars
SkipOver(s, p, chars) ==
    CHOOSE q \in p..(Len(s) + 1) :
        /\ \A j \in p..(q - 1) : Ch(s, j) \in chars
        /\ Ch(s, q) \notin chars

NoParse == [ok |-> FALSE, next |-> 0, v |-> ""]

\* A string body from position q up to the closing delimiter d: escapes are
\* decoded, a raw control character is refused.
RECURSIVE ScanString(_, _, _, _)
ScanString(s, q, d, acc) ==
    IF q > Len(s) THEN NoParse
    ELSE IF Ch(s, q) = d THEN [ok |-> TRUE, next |-> q + 1, v |-> acc]
    ELSE IF Ch(s, q) = "\\" THEN
        IF Ch(s, q + 1) \in { "\"", "\\", "/", "'" }
        THEN ScanString(s, q + 2, d, acc \o Ch(s, q + 1))
        ELSE NoParse
    ELSE IF Ch(s, q) \in { "\n", "\t", "\r" } THEN NoParse
    ELSE ScanString(s, q + 1, d, acc \o Ch(s, q))

\* A string at position q.  The strict reading takes double quotes only; the
\* lenient one also takes single quotes.
ParseText(s, q, lenient) ==
    IF Ch(s, q) = "\"" THEN ScanString(s, q + 1, "\"", "")
    ELSE IF lenient /\ Ch(s, q) = "'" THEN ScanString(s, q + 1, "'", "")
    ELSE NoParse

\* A key at position q: a string or, in the lenient reading, a bare name up to
\* the colon.
ParseKey(s, q, lenient) ==
    IF lenient /\ Ch(s, q) \in WordChars THEN
        LET e == CHOOSE c \in q..(Len(s) + 1) :
                    /\ \A j \in q..(c - 1) : Ch(s, j) \notin { ":", "\n", ",", "}", "" }
                    /\ Ch(s, c) \in { ":", "\n", ",", "}", "" }
        IN  [ok |-> TRUE, next |-> e, v |-> strip_chars(SubSeq(s, q, e - 1), Whitespace)]
    ELSE ParseText(s, q, lenient)

\* The members of an object from position q on, up to the closing brace and
\* the end of the text
RECURSIVE ParseMembers(_, _, _, _)
ParseMembers(s, q, lenient, obj) ==
    LET k == ParseKey(s, q, lenient)
        c == SkipOver(s, k.next, Whitespace)
        v == ParseText(s, SkipOver(s, c + 1, Whitespace), lenient)
        e == SkipOver(s, v.next, Whitespace)
    IN  IF ~k.ok \/ Ch(s, c) # ":" THEN NoData
        ELSE IF ~v.ok THEN NoData
        ELSE IF Ch(s, e) = ","
            THEN ParseMembers(s, SkipOver(s, e + 1, Whitespace), lenient,
                              SetItem(obj, k.v, S(v.v)))
        ELSE IF Ch(s, e) = "}" /\ SkipOver(s, e + 1, Whitespace) = Len(s) + 1
            THEN [ok |-> TRUE, obj |-> SetItem(obj, k.v, S(v.v))]
        ELSE NoData

\* An object of string members read from the text s
ParseObject(s, lenient) ==
    LET q == SkipOver(s, 1, Whitespace)
        m == SkipOver(s, q + 1, Whitespace)
    IN  IF Ch(s, q) # "{" THEN NoData
        ELSE IF Ch(s, m) = "}" THEN
            IF SkipOver(s, m + 1, Whitespace) = Len(s) + 1
            THEN [ok |-> TRUE, obj |-> EmptyDict] ELSE NoData
        ELSE ParseMembers(s, m, lenient, EmptyDict)

\* json.loads(content), lines 133 and 135, on the texts of the model (objects
\* whose members are strings): ok = FALSE stands for JSONDecodeError
json_loads(s) == ParseObject(s, FALSE)

\* line 17: re.sub(r'([{,])\s*(\w+):', r'\1"\2":', json_str)
RECURSIVE QuoteBareKeys(_, _)
QuoteBareKeys(s, p) ==
    IF p > Len(s) THEN ""
    ELSE LET a == SkipOver(s, p + 1, Whitespace)
             e == SkipOver(s, a, WordChars)
         IN  IF Ch(s, p) \in { "{", "," } /\ e > a /\ Ch(s, e) = ":"
             THEN Ch(s, p) \o "\"" \o SubSeq(s, a, e - 1) \o "\":" \o QuoteBareKeys(s, e + 1)
             ELSE Ch(s, p) \o QuoteBareKeys(s, p + 1)

\* line 18: json_str.replace("'", '"')
RECURSIVE SingleToDouble(_)
SingleToDouble(s) ==
    IF s = "" THEN ""
    ELSE (IF Head(s) = "'" THEN "\"" ELSE Head(s)) \o SingleToDouble(Tail(s))

\* The lookahead (?=(.*?".*?)*?$) after position p: up to the end of the text,
\* or up to a line break that ends the text, there is no line break and there
\* is either nothing or another double quote.
QuoteAhead(s, p) ==
    \E e \in { Len(s) + 1 } \cup { k \in { Len(s) } : Ch(s, k) = "\n" } :
        /\ e > p
        /\ \A j \in (p + 1)..(e - 1) : Ch(s, j) # "\n"
        /\ e = p + 1 \/ \E j \in (p + 1)..(e - 1) : Ch(s, j) = "\""

\* line 19: re.sub(r'(?<!\\)"(?=(.*?".*?)*?$)', r'\"', json_str)
RECURSIVE EscapeQuotes(_, _)
EscapeQuotes(s, p) ==
    IF p > Len(s) THEN ""
    ELSE (IF Ch(s, p) = "\"" /\ Ch(s, p - 1) # "\\" /\ QuoteAhead(s, p)
          THEN "\\\"" ELSE Ch(s, p))
            \o EscapeQuotes(s, p + 1)

\* lines 16-20
fix_json_string(json_str) ==
    EscapeQuotes(SingleToDouble(QuoteBareKeys(json_str, 1)), 1)

\* The answer texts of the model: an object of one or two members, its keys
\* double-quoted, single-quoted or bare, its values double- or single-quoted,
\* written on one line or one member a line, bare or inside code fences.
QuoteStyles == { "double", "single", "bare" }
Layouts == { "line", "lines" }
Fences == { "none", "plain", "json" }
AnswerObjects ==
    { << << "Location", "Hyderabad" >> >>,
      << << "Location", "Hyderabad" >>, << "Why", "good schools" >> >>,
      << << "Open Space", "70%" >> >> }

Quoted(text, style) ==
    IF style = "double" THEN "\"" \o text \o "\""
    ELSE IF style = "single" THEN "'" \o text \o "'"
    ELSE text

RECURSIVE RenderMembers(_, _, _, _)
RenderMembers(members, keys, values, layout) ==
    IF members = << >> THEN ""
    ELSE (IF layout = "lines" THEN "\n  " ELSE "")
            \o Quoted(Head(members)[1], keys) \o ": " \o Quoted(Head(members)[2], values)
            \o (IF Len(members) > 1 THEN (IF layout = "lines" THEN "," ELSE ", ") ELSE "")
            \o RenderMembers(Tail(members), keys, values, layout)

Render(members, keys, values, layout, fence) ==
    LET body == "{" \o RenderMembers(members, keys, values, layout)
                    \o (IF layout = "lines" THEN "\n}" ELSE "}")
    IN  IF fence = "plain" THEN Fence \o "\n" \o body \o "\n" \o Fence
        ELSE IF fence = "json" THEN Fence \o "json\n" \o body \o "\n" \o Fence
        ELSE " " \o body \o "\n"

AnswerTexts ==
    { Render(o, k, v, l, f) :
        o \in AnswerObjects, k \in QuoteStyles, v \in QuoteStyles \ { "bare" },
        l \in Layouts, f \in Fences }

InitParse ==
    /\ names = << >>
    /\ i = 0
    /\ pc = "parse"
    /\ project_name = "Lake Vista"
    /\ fstate = "running"
    /\ attempt = 0
    /\ retry_delay = initial_retry_delay
    /\ requests = 1
    /\ slept = << >>
    /\ reply = NoReply
    /\ response = EmptyDict
    /\ exc = ""
    /\ table = NoTable
    /\ table0 = NoTable
    /\ errlog = NoTable
    /\ results = NoResults
    /\ wrote = 0
    /\ logged = 0
    /\ storeFailures = 0
    /\ op = "none"
    /\ before = NoTable
    /\ nops = 0
    /\ prevop = "none"
    /\ added = << >>
    /\ query = clean_project_name(project_name)
    /\ content \in AnswerTexts
    /\ pstage = "received"
    /\ pdata = NoData
    /\ raw = content

ParseFrame ==
    UNCHANGED << names, i, pc, project_name, attempt, retry_delay, requests, slept,
                 table, table0, errlog, results, wrote, logged, storeFailures, op,
                 before, nops, prevop, added, query, raw >>

\* lines 128-130: the answer is stripped and its code fences removed
StripAnswer ==
    /\ pc = "parse"
    /\ pstage = "received"
    /\ content' = StripFence(strip_chars(content, Whitespace))
    /\ pstage' = "stripped"
    /\ UNCHANGED << fstate, reply, response, exc, pdata >>
    /\ ParseFrame

\* lines 132-133: the strict parse
StrictParse ==
    /\ pc = "parse"
    /\ pstage = "stripped"
    /\ pdata' = json_loads(content)
    /\ pstage' = IF json_loads(content).ok THEN "parsed" ELSE "decode_error"
    /\ UNCHANGED << fstate, reply, response, exc, content >>
    /\ ParseFrame

\* lines 134-135: the second parse, of the repaired text
RepairParse ==
    /\ pc = "parse"
    /\ pstage = "decode_error"
    /\ pdata' = json_loads(fix_json_string(content))
    /\ pstage' = IF json_loads(fix_json_string(content)).ok THEN "repaired" ELSE "malformed"
    /\ UNCHANGED << fstate, reply, response, exc, content >>
    /\ ParseFrame

\* lines 137-142: the parsed object is normalized and returned; a text that
\* parsed neither way leaves the try block with JSONDecodeError
ConcludeAttempt ==
    /\ pc = "parse"
    /\ pstage \in { "parsed", "repaired", "malformed" }
    /\ LET r == [net |-> "ok", status |-> "200", answer |-> "text",
                 parsed |-> IF pdata.ok THEN "object" ELSE "unparseable",
                 payload |-> pdata.obj]
       IN  /\ reply' = r
           /\ IF TryBlock(r).cls = "none"
              THEN /\ response' = Normalize(pdata.obj, project_name)
                   /\ fstate' = "normalized"
                   /\ exc' = ""
              ELSE /\ exc' = TryBlock(r).cls
                   /\ UNCHANGED << fstate, response >>
    /\ pstage' = "concluded"
    /\ UNCHANGED << content, pdata >>
    /\ ParseFrame

NextParse == StripAnswer \/ StrictParse \/ RepairParse \/ ConcludeAttempt

SpecParse == InitParse /\ [][NextParse]_vars

-----------------------------------------------------------------------------
(* Properties of the acquisition client *)

Returned == { "normalized", "fallback" }
Schema == Range(api_get_required_fields)

\* C1: fetch never raises to its caller: whatever each attempt meets (transport
\* error, HTTP error status, missing answer field, unparseable text, a parsed
\* value that is not an object, a well-formed object), the call neither lets an
\* exception escape nor falls out of its loop without a Record.
C1_FetchNeverRaises ==
    /\ fstate \notin { "raised", "none" }
    /\ fstate = "running" => attempt < max_retries
    /\ fstate \in Returned => "Project Name" \in DOMAIN response

C1_Witness ==
    /\ fstate = "fallback"
    /\ reply.parsed = "array"
    /\ requests = 3

\* C2 as stated: the keys of the returned Record are exactly the 15 schema
\* fields plus, optionally, the error indicator.
C2_ExactlySchemaKeys ==
    fstate \in Returned => DOMAIN response \ { "error" } = Schema

\* C2 amended: the returned Record has every one of the 15 schema fields; its
\* other keys are the error indicator alone on the fallback path, and on the
\* normalized path whatever other keys the service's object carried.
C2_SchemaKeysPresent ==
    /\ fstate \in Returned => Schema \subseteq DOMAIN response
    /\ fstate = "fallback" => DOMAIN response = Schema \cup { "error" }
    /\ fstate = "normalized" => DOMAIN response = Schema \cup DOMAIN reply.payload

C2_Witness ==
    /\ fstate = "normalized"
    /\ DOMAIN reply.payload = { "Project Name", "Location" }
    /\ Cardinality(DOMAIN response) = 15

\* C3: when all 3 attempts fail, the Fallback Record has Project Name equal to
\* the caller's name, error equal to the description of the exception of the
\* third attempt, Source URLs the empty sequence, and the sentinel in each of
\* the 13 remaining schema fields.
C3_FallbackRecord ==
    fstate = "fallback" =>
        /\ requests = 3
        /\ response["Project Name"] = S(project_name)
        /\ response["error"] = S(TryBlock(reply).msg)
        /\ response["Source URLs"] = L(<< >>)
        /\ Cardinality(Schema \ { "Project Name", "Source URLs" }) = 13
        /\ \A k \in Schema \ { "Project Name", "Source URLs" } : response[k] = S(SENTINEL)

C3_Witness ==
    /\ fstate = "fallback"
    /\ project_name = "Lake Vista"
    /\ reply.net = "timeout"
    /\ response["error"] = S("Read timed out")

\* C4: one fetch sends at least 1 and at most 3 requests: a further request is
\* sent only after every earlier attempt raised, and an answer that parses to
\* an object (with an error key or with fields omitted too) ends the fetch.
C4_BoundedAttempts ==
    /\ requests <= 3
    /\ fstate = "running" => requests = attempt /\ (requests > 0 => reply.parsed # "object")
    /\ fstate = "normalized" => requests = attempt + 1 /\ reply.parsed = "object"
    /\ fstate = "fallback" => requests = 3 /\ attempt = 2 /\ reply.parsed # "object"

C4_Witness ==
    /\ fstate = "normalized"
    /\ requests = 1
    /\ "error" \in DOMAIN reply.payload

-----------------------------------------------------------------------------
(* Properties of the batch orchestrator *)

Last(q) == q[Len(q)]

\* The names process_project_list processes among the entries q
Processed(q) ==
    SelectSeq([k \in 1..Len(q) |-> strip(q[k])], LAMBDA n : n # "")

\* The latest name has been classified; project_name, fstate, response, exc,
\* wrote and logged are still those of that name.
Classified == pc \in { "loop", "done" } /\ results.details # << >>

\* C5: in a run where no store operation fails, the table gains exactly one row
\* per processed name (each entry that is non-empty after trimming, duplicates
\* included), in input order, whatever the outcome of each name.
C5_OneRowPerProcessedName ==
    (storeFailures = 0 /\ pc \in { "loop", "done" }) =>
        LET base == ensure_csv_structure(table0).rows
            done == Processed(SubSeq(names, 1, i))
        IN  /\ Len(table.rows) = Len(base) + Len(done)
            /\ SubSeq(table.rows, 1, Len(base)) = base
            /\ \A k \in 1..Len(done) : table.rows[Len(base) + k][1] = done[k]
            /\ Classified => Last(table.rows) = DictWriterRow(_flatten(response))
            /\ pc = "done" => i = Len(names)

C5_Witness ==
    /\ pc = "done"
    /\ storeFailures = 0
    /\ names = << "B", "B" >>
    /\ fstate = "fallback"
    /\ Len(table0.rows) = 1
    /\ Len(table.rows) = 3

C7_FallbackIsFailure ==
    Classified =>
        /\ fstate = "fallback" =>
            /\ Last(results.details).status \notin { "success", "partial" }
            /\ results.failed >= 1
        /\ Last(results.details).status = "partial" => fstate = "normalized"

-----------------------------------------------------------------------------
(* Properties of the tabular store *)

\* C10: for any existing table whose header lacks schema columns, or holds them
\* in another order or with extra columns, after append(record) the header has
\* all 15 columns, the appended line read under the header gives, for every
\* schema column c, the flattened record[c], and the columns that were missing
\* hold the sentinel in every prior line.
C10_AppendedRowMatchesHeader ==
    (op = "append" /\ before.exists) =>
        /\ Range(get_required_fields) \subseteq Range(table.header)
        /\ Len(table.rows) = Len(before.rows) + 1
        /\ \A c \in Range(get_required_fields) :
            CellUnder(table.header, table.rows[Len(table.rows)], c) = _flatten(response)[c]
        /\ \A r \in 1..Len(before.rows) : \A c \in Range(Missing(before.header)) :
            CellUnder(table.header, table.rows[r], c) = SENTINEL

\* C11: after any sequence of ensure_csv_structure and write_to_csv calls,
\* from no table or from any existing table, the header holds every schema
\* column, and no column of the header before a call is absent after it.
C11_HeaderAdditiveOnly ==
    op # "none" =>
        /\ table.exists
        /\ Range(get_required_fields) \subseteq Range(table.header)
        /\ Range(before.header) \subseteq Range(table.header)

C11_Witness ==
    /\ op = "append"
    /\ before.header = SubSeq(get_required_fields, 1, 10) \o << "Notes" >>
    /\ Len(table.header) = 16
    /\ "Notes" \in Range(table.header)

\* C12: ensure_csv_structure on an existing table that lacks a schema column
\* adds the column to every existing row with the sentinel and leaves every
\* existing cell, the number of rows and their order unchanged.
C12_RepairPreservesCells ==
    (op = "ensure" /\ before.exists /\ Missing(before.header) # << >>) =>
        /\ Len(table.rows) = Len(before.rows)
        /\ \A r \in 1..Len(before.rows) :
            /\ \A c \in 1..Len(before.header) : table.rows[r][c] = before.rows[r][c]
            /\ \A c \in Range(Missing(before.header)) :
                CellUnder(table.header, table.rows[r], c) = SENTINEL

\* C13: ensure_csv_structure is idempotent: whatever the path held (no table,
\* a complete table, a table missing columns), a second call made right after
\* a first one leaves the file as it is.
C13_EnsureIdempotent ==
    (op = "ensure" /\ prevop = "ensure") => table = before

C13_Witness ==
    /\ op = "ensure"
    /\ prevop = "ensure"
    /\ nops = 2
    /\ table0.exists
    /\ Len(table0.header) = 10
    /\ table # table0
    /\ table = before

\* C14 as stated: write_to_csv never rewrites prior rows: whatever the existing
\* table, the rows present before the call are unchanged after it, and one row
\* is added at the end.
C14_AppendKeepsPriorRows ==
    op = "append" =>
        /\ Len(table.rows) = Len(before.rows) + 1
        /\ SubSeq(table.rows, 1, Len(before.rows)) = before.rows

\* C14 amended: when no table exists or the header of the existing table holds
\* every schema column, write_to_csv leaves the header and the rows present
\* before the call unchanged and adds one row at the end.
C14_AppendKeepsPriorRowsOfCompleteTable ==
    (op = "append" /\ (~before.exists \/ Missing(before.header) = << >>)) =>
        /\ before.exists => table.header = before.header
        /\ Len(table.rows) = Len(before.rows) + 1
        /\ SubSeq(table.rows, 1, Len(before.rows)) = before.rows
        /\ Last(table.rows) = DictWriterRow(_flatten(response))

C14_Witness ==
    /\ op = "append"
    /\ nops = 1
    /\ before.header = get_required_fields \o << "Notes" >>
    /\ Len(before.rows) = 1
    /\ before.rows[1][1] = "NA"
    /\ table.rows[1] = before.rows[1]
    /\ Len(table.rows) = 2

\* C15: write_to_csv never drops a record: after N successive calls, reading
\* the table yields exactly N data rows more than before the first call, in
\* the order the records were appended.
C15_AppendNeverDrops ==
    /\ Len(pd_read_csv(table).data) = Len(table0.rows) + Len(added)
    /\ Len(table.rows) = Len(table0.rows) + Len(added)
    /\ \A k \in 1..Len(added) : table.rows[Len(table0.rows) + k] = added[k]

C15_Witness ==
    /\ Len(added) = 2
    /\ added[1] = added[2]
    /\ Len(table0.rows) = 1
    /\ Len(table.rows) = 3

\* C16: every Record returned by fetch, normalized or fallback, has its Project
\* Name equal to the name the caller passed: not the value the service put in
\* that field, not the sanitized variant sent in the query.
C16_ProjectNameIsOriginal ==
    fstate \in Returned =>
        /\ "Project Name" \in DOMAIN response
        /\ response["Project Name"] = S(project_name)

C16_Witness ==
    /\ fstate = "normalized"
    /\ query # project_name
    /\ "Project Name" \in DOMAIN reply.payload
    /\ reply.payload["Project Name"] # S(project_name)
    /\ response["Project Name"] = S(project_name)

\* C17: at every point of a batch run success + partial + failed equals the
\* number of detail entries and the number of names processed so far; when the
\* run completes every input entry has been visited, and the detail entries
\* list the trimmed non-empty names in input order, each with an outcome and a
\* message.
C17_CountersMatchDetails ==
    LET done == Processed(SubSeq(names, 1, i))
    IN  /\ results.success + results.partial + results.failed = Len(results.details)
        /\ Len(results.details) = Len(done)
        /\ \A k \in 1..Len(done) :
            /\ results.details[k].name = done[k]
            /\ results.details[k].status \in { "success", "partial", "error" }
        /\ results.success = Cardinality({ k \in 1..Len(done) : results.details[k].status = "success" })
        /\ results.partial = Cardinality({ k \in 1..Len(done) : results.details[k].status = "partial" })
        /\ pc = "done" => i = Len(names)

C17_Witness ==
    /\ pc = "done"
    /\ names = << " ", " A " >>
    /\ Len(results.details) = 1
    /\ results.details[1].name = "A"
    /\ results.failed = 1

\* C19: within one fetch every failed attempt but the last is followed by a
\* delay that depends on the attempt number only, 5 after the first failure and
\* 10 after the second; nothing is slept after the third, and every new fetch
\* starts again at 5.
C19_BackoffSchedule ==
    pc = "fetch" =>
        /\ attempt <= max_retries - 1
        /\ slept = SubSeq(<< 5, 10 >>, 1, attempt)
        /\ retry_delay = IF attempt = 0 THEN 5 ELSE IF attempt = 1 THEN 10 ELSE 20
        /\ fstate = "fallback" => slept = << 5, 10 >> /\ requests = max_retries
        /\ fstate = "running" => requests = attempt

C19_Witness ==
    /\ pc = "fetch"
    /\ Len(results.details) = 1
    /\ results.details[1].message = S("'choices'")
    /\ fstate = "fallback"
    /\ reply.parsed = "unparseable"
    /\ slept = << 5, 10 >>

\* C20: normalization of a parsed payload changes no key other than Project
\* Name: every key the service supplied, schema field or extra key, keeps its
\* value, and the keys added are schema fields absent from the payload, each
\* with the sentinel.
C20_NormalizeFrame ==
    fstate = "normalized" =>
        /\ \A k \in DOMAIN reply.payload \ { "Project Name" } :
            k \in DOMAIN response /\ response[k] = reply.payload[k]
        /\ \A k \in DOMAIN response \ (DOMAIN reply.payload \cup { "Project Name" }) :
            k \in Schema /\ response[k] = S(SENTINEL)

C20_Witness ==
    /\ fstate = "normalized"
    /\ "Amenities" \in DOMAIN reply.payload
    /\ response["Amenities"] = S("pool")
    /\ "Location" \notin DOMAIN reply.payload
    /\ response["Location"] = S(SENTINEL)

-----------------------------------------------------------------------------
(* Properties of the answer text *)

\* A text that json.loads refuses and that reads as an object once single
\* quotes and bare keys are admitted
NearJson(text) == ~json_loads(text).ok /\ ParseObject(text, TRUE).ok

\* C18: for any answer text that is a JSON object malformed only by single
\* quotes in place of double quotes or by unquoted keys, the text repaired by
\* fix_json_string is accepted by the parser, so the attempt yields a
\* normalized Record and no malformed-response failure.
C18_RepairAcceptsNearJson ==
    NearJson(content) =>
        /\ pstage \in { "repaired", "malformed" } =>
            pstage = "repaired" /\ pdata = ParseObject(content, TRUE)
        /\ pstage = "concluded" => fstate = "normalized" /\ exc = ""

\* The language tags a code fence may carry after its opening marker
FenceTags == { "", "json" }

\* The text is body wrapped in code fences whose opening marker carries tag
Wraps(text, tag, body) == text = Fence \o tag \o "\n" \o body \o "\n" \o Fence

\* What is between the opening fence line with tag and the closing fence line
FencedBody(text, tag) ==
    LET from == Len(Fence \o tag \o "\n") + 1
        to == Len(text) - Len("\n" \o Fence)
    IN  IF from <= to THEN SubSeq(text, from, to) ELSE ""

\* C21: an answer text that is one valid object wrapped in code fences, with
\* or without a language tag after the opening fence, normalizes to the same
\* Record as the bare object: the strict parse sees the object alone and the
\* attempt does not fail.
C21_FencedObjectParses ==
    \A tag \in FenceTags :
        LET body == FencedBody(raw, tag)
        IN  (Wraps(raw, tag, body) /\ json_loads(body).ok) =>
                /\ pstage \in { "parsed", "decode_error" } =>
                    pstage = "parsed" /\ pdata = json_loads(body)
                /\ pstage \notin { "repaired", "malformed" }
                /\ pstage = "concluded" =>
                    /\ fstate = "normalized"
                    /\ response = Normalize(json_loads(body).obj, project_name)

-----------------------------------------------------------------------------
(* Properties of process_single_project under store failures *)

\* C22: processing one name appends at most one row to the table in every
\* execution, those where a store write raises midway included: when
\* write_error_log raises after the Record's row was appended, the error path
\* writes no second row for the name.
C22_AtMostOneRowPerName ==
    /\ wrote <= 1
    /\ pc \in { "loop", "done" } =>
        Len(table.rows) <= Len(table0.rows) + Len(results.details)

====
